---- MODULE Spec2Model ----
(***************************************************************************)
(* Saarthi AI: the retrieval-and-decision pipeline (rank fusion, memory    *)
(* boost, deterministic eligibility, result assembly) as a state machine.  *)
(*                                                                         *)
(* Scores are exact rationals [n, d]; memory weights and boosts are        *)
(* fixed-point integers in thousandths (1000 = 1.0).                       *)
(***************************************************************************)
EXTENDS Integers, Sequences, FiniteSets, TLC

VARIABLES
    stage,            \* position of the operation in progress
    profile,          \* ApplicantProfile of the request
    scholarship,      \* the entry handed to a standalone eligibility call
    verdict,          \* result of the standalone eligibility call
    bm25_results,     \* ranked list of the lexical index (doc ids, best first)
    vector_results,   \* ranked list of the vector index (doc ids, best first)
    fused,            \* output of rrf_fusion: sequence of [id, score]
    interactions,     \* the user's interaction log (user_interactions)
    now,              \* current day
    history,          \* the events fetched by the memory stage of the request
    candidates,       \* RankedCandidate records of the request
    top_k,            \* requested number of results
    response,         \* the search response (ordered list of candidates)
    vector_failed,    \* the vector search of the request failed or timed out
    progress_events,  \* progress events emitted for the request, in order
    earlier,          \* verdicts of the earlier evaluations of the same inputs
    retrieval_results, \* scores handed to the agent trigger (hundredths)
    trigger,          \* outcome of should_trigger_agent
    mas_scholar_profile, \* localStorage item: <<>> or <<profile>>
    details,          \* state of the details page and of its two async calls
    page,             \* state of the search page
    search_id,        \* search_id parameter of the page URL (0: absent)
    ws,               \* the WebSocket of the search page
    requests,         \* search requests of the page that have not settled
    uuid,             \* number of search ids generated so far
    call,             \* the handler that ran last, with its argument
    decay_reads,      \* weights read from the log: records [age, weight]
    state,            \* useAgentPipeline: the AgentPipelineState
    wsRef,            \* useAgentPipeline: wsRef.current (0: null)
    timeoutRef,       \* useAgentPipeline: timeoutRef.current (0: null)
    isCompleteRef,    \* useAgentPipeline: isCompleteRef.current
    sockets,          \* the WebSockets useAgentPipeline has created, in order
    timers,           \* the connection timeouts that are still pending
    mas_scholar_shortlist, \* localStorage item: the saved shortlist
    details_pages,    \* the open details pages (shortlist button state)
    shortlist_page    \* the saved-scholarships page

pipelineVars == <<vector_failed, progress_events>>
gateVars == <<retrieval_results, trigger>>
clientVars == <<mas_scholar_profile, details, page, search_id, ws, requests, uuid, call>>
decayVars == <<decay_reads>>
hookVars == <<state, wsRef, timeoutRef, isCompleteRef, sockets, timers>>
shortlistVars == <<mas_scholar_shortlist, details_pages, shortlist_page>>

vars == <<stage, profile, scholarship, verdict, bm25_results, vector_results,
          fused, interactions, now, history, candidates, top_k, response,
          vector_failed, progress_events, earlier, retrieval_results, trigger,
          mas_scholar_profile, details, page, search_id, ws, requests, uuid, call,
          decay_reads, state, wsRef, timeoutRef, isCompleteRef, sockets, timers,
          mas_scholar_shortlist, details_pages, shortlist_page>>

----------------------------------------------------------------------------
(* Bounds of the model                                                     *)

NumFocus == 2
NumFillers == 10
MaxListLen == 2
MaxHits == 1
MaxIncome == 3
MaxCeiling == 2
MaxLog == 2
MaxDay == 1
MaxTopK == 2
MaxCandidates == 3
MaxEvaluations == 2
MaxQueryLen == 2
MaxSearches == 2
MaxAge == 8
MaxConnects == 2
MaxPages == 2
MaxShortlist == 3

(* Program constants                                                       *)

RRF_K == 60
CATEGORY_POINTS == 30
INCOME_POINTS == 25
STATE_POINTS == 15
GENDER_POINTS == 10
EDUCATION_POINTS == 10
TRUST_POINTS == 10
ELIGIBLE_MIN_SCORE == 60
MAX_SCORE == 100
COLD_START_MIN == 2
INITIAL_WEIGHT == 1000
FUSED_WEIGHT == 7
MEMORY_WEIGHT == 3
MIN_TOP_SCORE == 60
MIN_RESULTS == 3
MAX_STD == 25
FALLBACK_LATENCY == 45

----------------------------------------------------------------------------
(* Exact rational arithmetic on records [n, d] with d > 0                  *)

Rat(n, d) == [n |-> n, d |-> d]
RZero == Rat(0, 1)
RAdd(a, b) == Rat(a.n * b.d + b.n * a.d, a.d * b.d)

(* sign of a/b - c/d for a, c >= 0 and b, d > 0, by comparing the integer  *)
(* parts and then the reciprocals of the remainders (no products, so the   *)
(* numbers stay within 32 bits)                                            *)
RECURSIVE RCmp(_, _, _, _)
RCmp(a, b, c, d) ==
    LET q1 == a \div b
        q2 == c \div d
        r1 == a % b
        r2 == c % d
    IN  IF q1 # q2 THEN (IF q1 < q2 THEN -1 ELSE 1)
        ELSE IF r1 = 0 /\ r2 = 0 THEN 0
        ELSE IF r1 = 0 THEN -1
        ELSE IF r2 = 0 THEN 1
        ELSE RCmp(d, r2, b, r1)

RLt(a, b) == RCmp(a.n, a.d, b.n, b.d) < 0
RLe(a, b) == RCmp(a.n, a.d, b.n, b.d) <= 0
REq(a, b) == RCmp(a.n, a.d, b.n, b.d) = 0

----------------------------------------------------------------------------
(* The catalog: entries are numbered in insertion order.  The first        *)
(* NumFocus entries are the ones the ranked lists permute; the fillers     *)
(* only pad a list so that deep ranks occur.                               *)

Focus == 1..NumFocus
Fillers == [i \in 1..NumFillers |-> NumFocus + i]
CatalogIds == 1..(NumFocus + NumFillers)

InjectiveSeqs(S, maxLen) ==
    UNION { { s \in [1..n -> S] : \A i, j \in 1..n : i # j => s[i] # s[j] }
            : n \in 0..maxLen }

(* A ranked list: focus entries in some order, optionally with the         *)
(* fillers inserted at some split point.                                   *)
RankedLists(maxLen, padded) ==
    LET short == InjectiveSeqs(Focus, maxLen)
    IN  short \cup
        (IF padded
         THEN { SubSeq(s, 1, i) \o Fillers \o SubSeq(s, i + 1, Len(s))
                : <<s, i>> \in { <<t, j>> \in short \X (0..maxLen) : j <= Len(t) } }
         ELSE {})

----------------------------------------------------------------------------
(* RankFusion: rrf_fusion(result_lists, k)                                 *)
(*                                                                         *)
(* `scores` is the insertion-ordered dictionary of the code: its keys in   *)
(* the order the loops insert them, and for each key the value the loops   *)
(* leave.  The definitions are closed forms of the two loops and of the    *)
(* library sort, so that long lists need no deep recursion.                *)

(* enumerate(results, 1): the rank of doc_id in the list, 0 if absent *)
IndexOf(results, doc_id) ==
    IF \E r \in 1..Len(results) : results[r] = doc_id
    THEN CHOOSE r \in 1..Len(results) :
             results[r] = doc_id /\ \A q \in 1..r - 1 : results[q] # doc_id
    ELSE 0

(* variant: an item already scored by an earlier list gets nothing more *)
AddReciprocal_FirstListOnly(score, results, doc_id, k) ==
    IF IndexOf(results, doc_id) = 0 \/ score.n # 0
    THEN score
    ELSE RAdd(score, Rat(1, k + IndexOf(results, doc_id)))

(* scores[doc_id] += 1.0 / (k + rank) for the list `results`; a list that  *)
(* does not hold doc_id leaves its score alone                             *)
AddReciprocal(score, results, doc_id, k) ==
    IF IndexOf(results, doc_id) = 0
    THEN score
    ELSE RAdd(score, Rat(1, k + IndexOf(results, doc_id)))

(* for results in result_lists: the score of doc_id after the first n      *)
(* lists, a missing key starting at 0.0                                    *)
RECURSIVE ScoreAfter(_, _, _, _)
ScoreAfter(result_lists, n, doc_id, k) ==
    IF n = 0
    THEN RZero
    ELSE AddReciprocal(ScoreAfter(result_lists, n - 1, doc_id, k),
                       result_lists[n], doc_id, k)

(* the doc ids in the order the loops visit them *)
RECURSIVE Visited(_, _)
Visited(result_lists, n) ==
    IF n = 0 THEN <<>> ELSE Visited(result_lists, n - 1) \o result_lists[n]

(* the keys of `scores` in insertion order: each doc id where it is met first *)
InsertionOrder(visited) ==
    LET firsts == { i \in 1..Len(visited) :
                      \A j \in 1..i - 1 : visited[j] # visited[i] }
    IN  [m \in 1..Cardinality(firsts) |->
           visited[CHOOSE i \in firsts :
                       Cardinality({ j \in firsts : j < i }) = m - 1]]

(* scores.items() after the loops *)
Accumulate(result_lists, k) ==
    LET keys == InsertionOrder(Visited(result_lists, Len(result_lists)))
    IN  [m \in 1..Len(keys) |->
           [id |-> keys[m],
            score |-> ScoreAfter(result_lists, Len(result_lists), keys[m], k)]]

(* position of items[i] in sorted(items, key=score, reverse=True): behind  *)
(* every item of higher score and, the sort being stable, behind the       *)
(* items of equal score that precede it in `items`                         *)
Place(items, i) ==
    Cardinality({ j \in 1..Len(items) : RLt(items[i].score, items[j].score) })
    + Cardinality({ j \in 1..i : REq(items[j].score, items[i].score) })

SortedByScoreDesc(items) ==
    [p \in 1..Len(items) |->
       items[CHOOSE i \in 1..Len(items) : Place(items, i) = p]]

rrf_fusion(result_lists, k) == SortedByScoreDesc(Accumulate(result_lists, k))

----------------------------------------------------------------------------
(* EligibilityEngine: calculate_eligibility(profile, scholarship)          *)

Categories == {"SC", "General"}
Regions == {"MH", "UP"}
EducationLevels == {"UG", "PG"}
Genders == {"F", "M"}

Profiles ==
    [category : Categories, income : 0..MaxIncome, region : Regions,
     education : EducationLevels, gender : Genders]

NonEmpty(S) == SUBSET S \ {{}}

Entries ==
    [categories : NonEmpty(Categories), max_income : 0..MaxCeiling,
     regions : NonEmpty(Regions), education_levels : NonEmpty(EducationLevels),
     genders : NonEmpty(Genders), trusted : BOOLEAN]

Check(criterion, passed) == [criterion |-> criterion, passed |-> passed]

(* "Additional checks: State, Education, Performance...": the criteria     *)
(* after the two hard requirements, each worth its documented points and   *)
(* each leaving one entry in the breakdown whether it passes or not.       *)
AdditionalChecks(p, s) ==
    << [criterion |-> "state", passed |-> p.region \in s.regions,
        points |-> STATE_POINTS],
       [criterion |-> "education", passed |-> p.education \in s.education_levels,
        points |-> EDUCATION_POINTS],
       [criterion |-> "gender", passed |-> p.gender \in s.genders,
        points |-> GENDER_POINTS],
       [criterion |-> "trust", passed |-> s.trusted,
        points |-> TRUST_POINTS] >>

RECURSIVE AwardedPoints(_, _)
AwardedPoints(extra, i) ==
    IF i > Len(extra)
    THEN 0
    ELSE (IF extra[i].passed THEN extra[i].points ELSE 0) + AwardedPoints(extra, i + 1)

Min(a, b) == IF a <= b THEN a ELSE b

Verdict(eligible, checks, score) ==
    [eligible |-> eligible, checks |-> checks, score |-> score]

(* variant: an income above the ceiling only loses the income points *)
calculate_eligibility_IncomeDeducts(p, s) ==
    IF p.category \notin s.categories
    THEN Verdict(FALSE, <<>>, 0)
    ELSE LET extra == AdditionalChecks(p, s)
             within == p.income <= s.max_income
             score == CATEGORY_POINTS + (IF within THEN INCOME_POINTS ELSE 0)
                      + AwardedPoints(extra, 1)
             checks == <<Check("category", TRUE)>>
                       \o (IF within THEN <<Check("income", TRUE)>> ELSE <<>>)
                       \o [i \in 1..Len(extra) |->
                             Check(extra[i].criterion, extra[i].passed)]
         IN  Verdict(score >= ELIGIBLE_MIN_SCORE, checks, Min(score, MAX_SCORE))

(* variant: passing the two hard requirements is taken as eligibility *)
calculate_eligibility_HardPassEligible(p, s) ==
    IF p.category \notin s.categories
    THEN Verdict(FALSE, <<>>, 0)
    ELSE IF ~(p.income <= s.max_income)
    THEN Verdict(FALSE, <<Check("category", TRUE)>>, 0)
    ELSE LET extra == AdditionalChecks(p, s)
             score == CATEGORY_POINTS + INCOME_POINTS + AwardedPoints(extra, 1)
             checks == <<Check("category", TRUE), Check("income", TRUE)>>
                       \o [i \in 1..Len(extra) |->
                             Check(extra[i].criterion, extra[i].passed)]
         IN  Verdict(TRUE, checks, Min(score, MAX_SCORE))

(* variant: the income comparison is strict *)
calculate_eligibility_StrictIncome(p, s) ==
    IF p.category \notin s.categories
    THEN Verdict(FALSE, <<>>, 0)
    ELSE IF ~(p.income < s.max_income)
    THEN Verdict(FALSE, <<Check("category", TRUE)>>, 0)
    ELSE LET extra == AdditionalChecks(p, s)
             score == CATEGORY_POINTS + INCOME_POINTS + AwardedPoints(extra, 1)
             checks == <<Check("category", TRUE), Check("income", TRUE)>>
                       \o [i \in 1..Len(extra) |->
                             Check(extra[i].criterion, extra[i].passed)]
         IN  Verdict(score >= ELIGIBLE_MIN_SCORE, checks, Min(score, MAX_SCORE))

(* variant: an entry counts as trusted only while the log is empty and    *)
(* the day is the first                                                    *)
calculate_eligibility_ReadsLogAndClock(p, s) ==
    IF p.category \notin s.categories
    THEN Verdict(FALSE, <<>>, 0)
    ELSE IF ~(p.income <= s.max_income)
    THEN Verdict(FALSE, <<Check("category", TRUE)>>, 0)
    ELSE LET fresh == Len(interactions) = 0 /\ now = 0
             extra == AdditionalChecks(p, [s EXCEPT !.trusted = @ /\ fresh])
             score == CATEGORY_POINTS + INCOME_POINTS + AwardedPoints(extra, 1)
             checks == <<Check("category", TRUE), Check("income", TRUE)>>
                       \o [i \in 1..Len(extra) |->
                             Check(extra[i].criterion, extra[i].passed)]
         IN  Verdict(score >= ELIGIBLE_MIN_SCORE, checks, Min(score, MAX_SCORE))

(* def calculate_eligibility(profile, scholarship) *)
calculate_eligibility(p, s) ==
    IF p.category \notin s.categories
    THEN Verdict(FALSE, <<>>, 0)
    ELSE IF ~(p.income <= s.max_income)
    THEN Verdict(FALSE, <<Check("category", TRUE)>>, 0)
    ELSE LET extra == AdditionalChecks(p, s)
             score == CATEGORY_POINTS + INCOME_POINTS + AwardedPoints(extra, 1)
             checks == <<Check("category", TRUE), Check("income", TRUE)>>
                       \o [i \in 1..Len(extra) |->
                             Check(extra[i].criterion, extra[i].passed)]
         IN  Verdict(score >= ELIGIBLE_MIN_SCORE, checks, Min(score, MAX_SCORE))

----------------------------------------------------------------------------
(* The catalog of the search pipeline: immutable entries with fixed        *)
(* attributes.  Odd entries are open to SC applicants only and satisfy     *)
(* every soft criterion of the request profiles; even entries pass the     *)
(* hard requirements of every request profile and the state criterion      *)
(* only (70 points).  The two kinds differ in topic.                       *)

Catalog(id) ==
    IF id % 2 = 1
    THEN [categories |-> {"SC"}, max_income |-> MaxCeiling, regions |-> Regions,
          education_levels |-> EducationLevels, genders |-> Genders,
          trusted |-> TRUE, topic |-> "Technical"]
    ELSE [categories |-> Categories, max_income |-> MaxCeiling, regions |-> {"MH"},
          education_levels |-> {"PG"}, genders |-> {"M"},
          trusted |-> FALSE, topic |-> "Arts"]

RequestProfiles ==
    [category : Categories, income : {0}, region : {"MH"},
     education : {"UG"}, gender : {"F"}]

----------------------------------------------------------------------------
(* MemoryStore: decayed weight, similarity and the personalization boost   *)

(* round(1000 * exp(-0.1 * age)) for age = 0, 1, 2, ... days *)
DecayTable ==
    <<1000, 905, 819, 741, 670, 607, 549, 497, 449, 407, 368, 333, 301, 273, 247>>

DecayedWeight(weight, age) ==
    IF age + 1 <= Len(DecayTable)
    THEN (weight * DecayTable[age + 1]) \div INITIAL_WEIGHT
    ELSE 0

(* similarity of the candidate's embedding and the event's embedding,      *)
(* both derived from the entry's category/education metadata: 1000 for     *)
(* the same metadata, 0 otherwise.                                         *)
Similarity(candidate_id, event) ==
    IF Catalog(candidate_id).topic = Catalog(event.scholarship_id).topic
    THEN 1000
    ELSE 0

RECURSIVE WeightedSimilarity(_, _, _, _)
WeightedSimilarity(candidate_id, events, t, i) ==
    IF i > Len(events)
    THEN 0
    ELSE (DecayedWeight(events[i].weight, t - events[i].timestamp)
            * Similarity(candidate_id, events[i])) \div 1000
         + WeightedSimilarity(candidate_id, events, t, i + 1)

(* variant: one stored interaction is enough to personalize *)
MemoryBoost_NoColdStart(candidate_id, events, t) ==
    IF Len(events) < 1
    THEN 0
    ELSE Min(1000, WeightedSimilarity(candidate_id, events, t, 1) \div Len(events))

(* boost in thousandths, in 0..1000; zero below the cold-start minimum *)
MemoryBoost(candidate_id, events, t) ==
    IF Len(events) < COLD_START_MIN
    THEN 0
    ELSE Min(1000, WeightedSimilarity(candidate_id, events, t, 1) \div Len(events))

----------------------------------------------------------------------------
(* ResultAssembler                                                         *)

(* variant: the memory term is left out *)
Composite_FusedOnly(fused_score, boost) ==
    Rat(FUSED_WEIGHT * fused_score.n * 1000, 10 * 1000 * fused_score.d)

(* FinalScore = 0.7*RRFScore + 0.3*MemoryScore *)
Composite(fused_score, boost) ==
    Rat(FUSED_WEIGHT * fused_score.n * 1000 + MEMORY_WEIGHT * boost * fused_score.d,
        10 * 1000 * fused_score.d)

(* variant: the override zeroes the fused score before the boost is added *)
FinalScore_OverrideBeforeBoost(c) ==
    IF ~c.eligible
    THEN Composite(RZero, c.memory_boost)
    ELSE Composite(c.fused_score, c.memory_boost)

(* If not eligible -> FinalScore = 0 (always) *)
FinalScore(c) ==
    IF ~c.eligible
    THEN RZero
    ELSE Composite(c.fused_score, c.memory_boost)

RECURSIVE SortedByFinalDesc(_, _, _)
SortedByFinalDesc(sorted, items, i) ==
    IF i > Len(items)
    THEN sorted
    ELSE LET x == items[i]
             p == Cardinality({ j \in 1..Len(sorted) :
                                  RLe(x.final_score, sorted[j].final_score) })
         IN  SortedByFinalDesc(
                 SubSeq(sorted, 1, p) \o <<x>> \o SubSeq(sorted, p + 1, Len(sorted)),
                 items, i + 1)

Truncate(items, k) == SubSeq(items, 1, Min(k, Len(items)))

(* variant: the list is cut to k before it is sorted *)
Assemble_TruncateFirst(cands, k) ==
    SortedByFinalDesc(<<>>,
        [i \in 1..Min(k, Len(cands)) |->
            [cands[i] EXCEPT !.final_score = FinalScore(cands[i])]], 1)

Assemble(cands, k) ==
    Truncate(
        SortedByFinalDesc(<<>>,
            [i \in 1..Len(cands) |->
                [cands[i] EXCEPT !.final_score = FinalScore(cands[i])]], 1),
        k)

----------------------------------------------------------------------------
(* State machine of the search pipeline and the interaction log            *)

IdleProfile ==
    [category |-> "General", income |-> 0, region |-> "MH",
     education |-> "UG", gender |-> "F"]

IdleEntry ==
    [categories |-> Categories, max_income |-> 0, regions |-> Regions,
     education_levels |-> EducationLevels, genders |-> Genders, trusted |-> TRUE]

IdleVerdict == Verdict(FALSE, <<>>, 0)

Outcome(raised, value) == [raised |-> raised, value |-> value]

IdleTrigger == Outcome(FALSE, FALSE)

(* useState initial values of the details page, before it is mounted *)
IdleDetails ==
    [id |-> 0, scholarship |-> <<>>, eligibility |-> <<>>, loading |-> TRUE,
     error |-> "", fetchData |-> "idle", logClickInteraction |-> "idle"]

(* the response whose data the page displays: the request that fetched it *)
(* (0: none) and the memory_influenced it reported                         *)
Shown(id, memory_influenced) ==
    [search_id |-> id, memory_influenced |-> memory_influenced]

(* useState initial values of the search page; `shown` is history, not a   *)
(* state of the component                                                  *)
IdlePage ==
    [results |-> <<>>, isLoading |-> FALSE, currentStage |-> "START",
     latency |-> 0, memoryActive |-> FALSE, shown |-> Shown(0, FALSE)]

IdleSocket == [state |-> "none", search_id |-> 0, connected |-> FALSE]

IdleCall == [handler |-> "none", arg |-> <<>>]

(* useState initial value of useAgentPipeline; "" stands for null *)
IdleState ==
    [stages |-> <<>>, currentStage |-> "", progress |-> 0, isActive |-> FALSE,
     isConnected |-> FALSE, error |-> "", totalLatency |-> 0]

IdleHook ==
    /\ state = IdleState
    /\ wsRef = 0
    /\ timeoutRef = 0
    /\ isCompleteRef = FALSE
    /\ sockets = <<>>
    /\ timers = {}

IdleShortlistPage == [loaded |-> FALSE, items |-> <<>>]

IdleShortlist ==
    /\ mas_scholar_shortlist = <<>>
    /\ details_pages = <<>>
    /\ shortlist_page = IdleShortlistPage

IdleDecay == decay_reads = {}

IdleGate ==
    /\ retrieval_results = <<>>
    /\ trigger = IdleTrigger

IdleClient ==
    /\ mas_scholar_profile = <<>>
    /\ details = IdleDetails
    /\ page = IdlePage
    /\ search_id = 0
    /\ ws = IdleSocket
    /\ requests = {}
    /\ uuid = 0
    /\ call = IdleCall
    /\ IdleHook
    /\ IdleShortlist
    /\ IdleDecay

IdleServer ==
    /\ profile = IdleProfile
    /\ scholarship = IdleEntry
    /\ verdict = IdleVerdict
    /\ bm25_results = <<>>
    /\ vector_results = <<>>
    /\ fused = <<>>
    /\ interactions = <<>>
    /\ now = 0
    /\ history = <<>>
    /\ candidates = <<>>
    /\ top_k = 1
    /\ response = <<>>
    /\ vector_failed = FALSE
    /\ progress_events = <<>>
    /\ earlier = <<>>

Init ==
    /\ stage = "idle"
    /\ IdleServer
    /\ IdleGate
    /\ IdleClient

(* the entries the user clicks: one of each topic *)
Clicked == {1, 2}

(* Payload: {user_id, type: "click", metadata, timestamp, weight: 1.0} *)
StoredEvent(id, t) ==
    [scholarship_id |-> id, weight |-> INITIAL_WEIGHT, timestamp |-> t]

(* Interaction log event {user_id, scholarship_id, interaction_type,       *)
(* timestamp}, stored with weight 1.0; the log only ever grows.            *)
LogInteraction(id) ==
    /\ Len(interactions) < MaxLog
    /\ interactions' = Append(interactions, StoredEvent(id, now))
    /\ UNCHANGED <<stage, profile, scholarship, verdict, bm25_results,
                   vector_results, fused, now, history, candidates, top_k, response,
                   pipelineVars, earlier, gateVars, decayVars, hookVars,
                   shortlistVars, clientVars>>

(* A day passes; a request in flight finishes within the day. *)
Tick ==
    /\ stage \in {"idle", "eligibility_response"}
    /\ now < MaxDay
    /\ now' = now + 1
    /\ UNCHANGED <<stage, profile, scholarship, verdict, bm25_results,
                   vector_results, fused, interactions, history, candidates,
                   top_k, response, pipelineVars, earlier, gateVars, decayVars, hookVars,
                   shortlistVars, clientVars>>

(* Emit: "<stage>" *)
Emit(emitted, name) == Append(emitted, name)

(* Search request {query, profile, filters, top_k} accepted. *)
StartSearch(p, k) ==
    /\ stage = "idle"
    /\ stage' = "query_understanding"
    /\ progress_events' = Emit(progress_events, "query_understanding")
    /\ profile' = p
    /\ top_k' = k
    /\ UNCHANGED <<scholarship, verdict, bm25_results, vector_results, fused,
                   interactions, now, history, candidates, response,
                   vector_failed, earlier, gateVars, decayVars, hookVars,
                   shortlistVars, clientVars>>

Bm25Search(results) ==
    /\ stage = "query_understanding"
    /\ stage' = "bm25_search"
    /\ progress_events' = Emit(progress_events, "bm25_search")
    /\ bm25_results' = results
    /\ UNCHANGED <<profile, scholarship, verdict, vector_results, fused,
                   interactions, now, history, candidates, top_k, response,
                   vector_failed, earlier, gateVars, decayVars, hookVars,
                   shortlistVars, clientVars>>

VectorSearch(results) ==
    /\ stage = "bm25_search"
    /\ stage' = "vector_search"
    /\ progress_events' = Emit(progress_events, "vector_search")
    /\ vector_results' = results
    /\ UNCHANGED <<profile, scholarship, verdict, bm25_results, fused,
                   interactions, now, history, candidates, top_k, response,
                   vector_failed, earlier, gateVars, decayVars, hookVars,
                   shortlistVars, clientVars>>

(* variant: a failed vector search ends the request with an error *)
VectorSearchFails_Fatal ==
    /\ stage = "bm25_search"
    /\ stage' = "error"
    /\ progress_events' = Emit(progress_events, "error")
    /\ vector_failed' = TRUE
    /\ UNCHANGED <<profile, scholarship, verdict, bm25_results, vector_results,
                   fused, interactions, now, history, candidates, top_k, response,
                   earlier, gateVars, decayVars, hookVars,
                   shortlistVars, clientVars>>

(* The embedding or the vector index is unreachable, or the call timed     *)
(* out: the stage ends with no vector results and the request goes on.     *)
VectorSearchFails ==
    /\ stage = "bm25_search"
    /\ stage' = "vector_search"
    /\ progress_events' = Emit(progress_events, "vector_search")
    /\ vector_results' = <<>>
    /\ vector_failed' = TRUE
    /\ UNCHANGED <<profile, scholarship, verdict, bm25_results, fused,
                   interactions, now, history, candidates, top_k, response,
                   earlier, gateVars, decayVars, hookVars,
                   shortlistVars, clientVars>>

Candidate(item) ==
    [id |-> item.id, fused_score |-> item.score, memory_boost |-> 0,
     eligible |-> FALSE, eligibility_score |-> 0, final_score |-> RZero]

(* variant: fusion starts as soon as the lexical results are in *)
RRFFusion_BeforeVector ==
    /\ stage \in {"bm25_search", "vector_search"}
    /\ stage' = "rrf_fusion"
    /\ progress_events' = Emit(progress_events, "rrf_fusion")
    /\ fused' = rrf_fusion(<<bm25_results, vector_results>>, RRF_K)
    /\ candidates' = [i \in 1..Len(fused') |-> Candidate(fused'[i])]
    /\ UNCHANGED <<profile, scholarship, verdict, bm25_results, vector_results,
                   interactions, now, history, top_k, response,
                   vector_failed, earlier, gateVars, decayVars, hookVars,
                   shortlistVars, clientVars>>

RRFFusion ==
    /\ stage = "vector_search"
    /\ stage' = "rrf_fusion"
    /\ progress_events' = Emit(progress_events, "rrf_fusion")
    /\ fused' = rrf_fusion(<<bm25_results, vector_results>>, RRF_K)
    /\ candidates' = [i \in 1..Len(fused') |-> Candidate(fused'[i])]
    /\ UNCHANGED <<profile, scholarship, verdict, bm25_results, vector_results,
                   interactions, now, history, top_k, response,
                   vector_failed, earlier, gateVars, decayVars, hookVars,
                   shortlistVars, clientVars>>

(* variant: the memory stage writes the decayed weights back to the log *)
MemoryBoostStage_StoresDecay ==
    /\ stage = "rrf_fusion"
    /\ stage' = "memory_boost"
    /\ progress_events' = Emit(progress_events, "memory_boost")
    /\ history' = interactions
    /\ interactions' = [i \in 1..Len(interactions) |->
                          [interactions[i] EXCEPT
                             !.weight = DecayedWeight(@, now - interactions[i].timestamp)]]
    /\ candidates' = [i \in 1..Len(candidates) |->
                        [candidates[i] EXCEPT
                           !.memory_boost = MemoryBoost(candidates[i].id, interactions, now)]]
    /\ UNCHANGED <<profile, scholarship, verdict, bm25_results, vector_results,
                   fused, now, top_k, response,
                   vector_failed, earlier, gateVars, decayVars, hookVars,
                   shortlistVars, clientVars>>

(* The memory stage reads the log; it never writes it. *)
MemoryBoostStage ==
    /\ stage = "rrf_fusion"
    /\ stage' = "memory_boost"
    /\ progress_events' = Emit(progress_events, "memory_boost")
    /\ history' = interactions
    /\ candidates' = [i \in 1..Len(candidates) |->
                        [candidates[i] EXCEPT
                           !.memory_boost = MemoryBoost(candidates[i].id, interactions, now)]]
    /\ UNCHANGED <<profile, scholarship, verdict, bm25_results, vector_results,
                   fused, interactions, now, top_k, response,
                   vector_failed, earlier, gateVars, decayVars, hookVars,
                   shortlistVars, clientVars>>

EligibilityCheck ==
    /\ stage = "memory_boost"
    /\ stage' = "eligibility_check"
    /\ progress_events' = Emit(progress_events, "eligibility_check")
    /\ candidates' = [i \in 1..Len(candidates) |->
                        LET v == calculate_eligibility(profile, Catalog(candidates[i].id))
                        IN  [candidates[i] EXCEPT !.eligible = v.eligible,
                                                  !.eligibility_score = v.score]]
    /\ UNCHANGED <<profile, scholarship, verdict, bm25_results, vector_results,
                   fused, interactions, now, history, top_k, response,
                   vector_failed, earlier, gateVars, decayVars, hookVars,
                   shortlistVars, clientVars>>

Complete ==
    /\ stage = "eligibility_check"
    /\ stage' = "complete"
    /\ progress_events' = Emit(progress_events, "complete")
    /\ response' = Assemble(candidates, top_k)
    /\ UNCHANGED <<profile, scholarship, verdict, bm25_results, vector_results,
                   fused, interactions, now, history, candidates, top_k,
                   vector_failed, earlier, gateVars, decayVars, hookVars,
                   shortlistVars, clientVars>>

(* The response has been sent: the request and its locals are gone. *)
Return ==
    /\ stage = "complete"
    /\ stage' = "idle"
    /\ profile' = IdleProfile
    /\ top_k' = 1
    /\ bm25_results' = <<>>
    /\ vector_results' = <<>>
    /\ fused' = <<>>
    /\ history' = <<>>
    /\ candidates' = <<>>
    /\ response' = <<>>
    /\ vector_failed' = FALSE
    /\ progress_events' = <<>>
    /\ UNCHANGED <<scholarship, verdict, interactions, now, earlier, gateVars, decayVars, hookVars,
                   shortlistVars,
                   clientVars>>

Next ==
    \/ \E id \in Clicked : LogInteraction(id)
    \/ Tick
    \/ \E p \in RequestProfiles, k \in {1, MaxTopK} : StartSearch(p, k)
    \/ \E results \in RankedLists(MaxHits, FALSE) : Bm25Search(results)
    \/ \E results \in RankedLists(MaxHits, FALSE) : VectorSearch(results)
    \/ VectorSearchFails
    \/ RRFFusion
    \/ MemoryBoostStage
    \/ EligibilityCheck
    \/ Complete
    \/ Return

Spec == Init /\ [][Next]_vars

----------------------------------------------------------------------------
(* Standalone eligibility request: {scholarship_id, profile} ->            *)
(* {is_eligible, match_score, breakdown}, the same engine as in search.    *)

InitEligibility ==
    /\ stage = "eligibility_request"
    /\ profile \in Profiles
    /\ scholarship \in Entries
    /\ verdict = IdleVerdict
    /\ bm25_results = <<>>
    /\ vector_results = <<>>
    /\ fused = <<>>
    /\ interactions = <<>>
    /\ now = 0
    /\ history = <<>>
    /\ candidates = <<>>
    /\ top_k = 1
    /\ response = <<>>
    /\ vector_failed = FALSE
    /\ progress_events = <<>>
    /\ earlier = <<>>
    /\ IdleGate
    /\ IdleClient

EvaluateEligibility ==
    /\ stage = "eligibility_request"
    /\ stage' = "eligibility_response"
    /\ verdict' = calculate_eligibility(profile, scholarship)
    /\ UNCHANGED <<profile, scholarship, bm25_results, vector_results, fused,
                   interactions, now, history, candidates, top_k, response,
                   pipelineVars, earlier, gateVars, decayVars, hookVars,
                   shortlistVars, clientVars>>

NextEligibility == EvaluateEligibility

SpecEligibility == InitEligibility /\ [][NextEligibility]_vars

----------------------------------------------------------------------------
(* The same eligibility request evaluated again and again while the        *)
(* interaction log grows and days pass                                     *)

CatalogEntry(id) ==
    [categories |-> Catalog(id).categories, max_income |-> Catalog(id).max_income,
     regions |-> Catalog(id).regions,
     education_levels |-> Catalog(id).education_levels,
     genders |-> Catalog(id).genders, trusted |-> Catalog(id).trusted]

InitReplay ==
    /\ stage = "eligibility_request"
    /\ profile \in RequestProfiles
    /\ scholarship \in { CatalogEntry(id) : id \in Focus }
    /\ verdict = IdleVerdict
    /\ bm25_results = <<>>
    /\ vector_results = <<>>
    /\ fused = <<>>
    /\ interactions = <<>>
    /\ now = 0
    /\ history = <<>>
    /\ candidates = <<>>
    /\ top_k = 1
    /\ response = <<>>
    /\ vector_failed = FALSE
    /\ progress_events = <<>>
    /\ earlier = <<>>
    /\ IdleGate
    /\ IdleClient

(* the verdict in hand is filed with the day and the size of the log at    *)
(* which it is superseded, and the engine runs again on the same inputs    *)
EvaluateAgain ==
    /\ stage = "eligibility_response"
    /\ Len(earlier) < MaxEvaluations
    /\ earlier' = Append(earlier, [verdict |-> verdict, at |-> now,
                                   logged |-> Len(interactions)])
    /\ verdict' = calculate_eligibility(profile, scholarship)
    /\ UNCHANGED <<stage, profile, scholarship, bm25_results, vector_results,
                   fused, interactions, now, history, candidates, top_k, response,
                   pipelineVars, gateVars, decayVars, hookVars,
                   shortlistVars, clientVars>>

NextReplay ==
    \/ EvaluateEligibility
    \/ EvaluateAgain
    \/ \E id \in Clicked : LogInteraction(id)
    \/ Tick

SpecReplay == InitReplay /\ [][NextReplay]_vars

----------------------------------------------------------------------------
(* Rank fusion alone, over ranked lists that reach deep ranks              *)

InitFusion ==
    /\ stage = "fusion_input"
    /\ profile = IdleProfile
    /\ scholarship = IdleEntry
    /\ verdict = IdleVerdict
    /\ bm25_results \in RankedLists(MaxListLen, TRUE)
    /\ vector_results \in RankedLists(MaxListLen, TRUE)
    /\ fused = <<>>
    /\ interactions = <<>>
    /\ now = 0
    /\ history = <<>>
    /\ candidates = <<>>
    /\ top_k = 1
    /\ response = <<>>
    /\ vector_failed = FALSE
    /\ progress_events = <<>>
    /\ earlier = <<>>
    /\ IdleGate
    /\ IdleClient

Fuse ==
    /\ stage = "fusion_input"
    /\ stage' = "fusion_output"
    /\ fused' = rrf_fusion(<<bm25_results, vector_results>>, RRF_K)
    /\ UNCHANGED <<profile, scholarship, verdict, bm25_results, vector_results,
                   interactions, now, history, candidates, top_k, response,
                   pipelineVars, earlier, gateVars, decayVars, hookVars,
                   shortlistVars, clientVars>>

NextFusion == Fuse

SpecFusion == InitFusion /\ [][NextFusion]_vars

----------------------------------------------------------------------------
(* ConfidenceGate: should_trigger_agent(retrieval_results, query)          *)
(* Scores are fixed-point integers in hundredths (60 = 0.6).               *)

ScoreLevels == {0, 30, 55, 60, 100}

(* ranked score lists: at most maxLen scores, best first *)
RankedScores(maxLen) ==
    UNION { { s \in [1..n -> ScoreLevels] : \A i \in 1..n - 1 : s[i] >= s[i + 1] }
            : n \in 0..maxLen }

RECURSIVE Sum(_, _)
Sum(scores, i) == IF i > Len(scores) THEN 0 ELSE scores[i] + Sum(scores, i + 1)

RECURSIVE SumOfSquares(_, _)
SumOfSquares(scores, i) ==
    IF i > Len(scores) THEN 0 ELSE scores[i] * scores[i] + SumOfSquares(scores, i + 1)

Max(scores) == CHOOSE m \in { scores[i] : i \in 1..Len(scores) } :
                   \A i \in 1..Len(scores) : scores[i] <= m

(* std(scores) > limit, std being the population standard deviation:       *)
(* sum(x^2)/n - (sum(x)/n)^2 > limit^2, cleared of its denominators        *)
StdAbove(scores, limit) ==
    LET n == Len(scores)
    IN  n * SumOfSquares(scores, 1) - Sum(scores, 1) * Sum(scores, 1)
          > limit * limit * n * n

(* def should_trigger_agent(retrieval_results, query): max() of an empty   *)
(* list raises ValueError before the length is looked at                   *)
should_trigger_agent(results, query) ==
    IF Len(results) = 0 THEN Outcome(TRUE, FALSE)
    ELSE IF Max(results) < MIN_TOP_SCORE THEN Outcome(FALSE, TRUE)
    ELSE IF Len(results) < MIN_RESULTS THEN Outcome(FALSE, TRUE)
    ELSE IF StdAbove(results, MAX_STD) THEN Outcome(FALSE, TRUE)
    ELSE Outcome(FALSE, FALSE)

InitGate ==
    /\ stage = "gate_input"
    /\ IdleServer
    /\ retrieval_results \in RankedScores(MaxCandidates)
    /\ trigger = IdleTrigger
    /\ IdleClient

TriggerDecision ==
    /\ stage = "gate_input"
    /\ stage' = "gate_output"
    /\ trigger' = should_trigger_agent(retrieval_results, <<>>)
    /\ UNCHANGED <<profile, scholarship, verdict, bm25_results, vector_results,
                   fused, interactions, now, history, candidates, top_k, response,
                   pipelineVars, earlier, retrieval_results, clientVars,
                   decayVars, hookVars, shortlistVars>>

NextGate == TriggerDecision

SpecGate == InitGate /\ [][NextGate]_vars

----------------------------------------------------------------------------
(* Details page: the fetchData effect and the click log it schedules       *)

getSavedProfile == mas_scholar_profile

(* the page as rendered: everything but the position of the click log *)
Rendered(d) == <<d.scholarship, d.eligibility, d.loading, d.error, d.fetchData>>

InitDetails ==
    /\ stage = "idle"
    /\ IdleServer
    /\ IdleGate
    /\ mas_scholar_profile \in {<<>>} \cup { <<p>> : p \in RequestProfiles }
    /\ details \in { [IdleDetails EXCEPT !.id = id, !.fetchData = "scholarship",
                                         !.logClickInteraction = "timer"]
                     : id \in Focus }
    /\ page = IdlePage
    /\ search_id = 0
    /\ ws = IdleSocket
    /\ requests = {}
    /\ uuid = 0
    /\ call = IdleCall
    /\ IdleHook
    /\ IdleShortlist
    /\ IdleDecay

(* await fetch(`/api/scholarships/${id}`) settles: the entry, a status     *)
(* that is not ok, or a rejected fetch                                     *)
ScholarshipFetched(outcome) ==
    /\ details.fetchData = "scholarship"
    /\ details' =
         IF outcome = "ok"
         THEN IF getSavedProfile # <<>>
              THEN [details EXCEPT !.scholarship = <<details.id>>,
                                   !.fetchData = "eligibility"]
              ELSE [details EXCEPT !.scholarship = <<details.id>>,
                                   !.loading = FALSE, !.fetchData = "done"]
         ELSE [details EXCEPT !.scholarship = <<>>,
                              !.error = IF outcome = "not_found"
                                        THEN "Scholarship not found"
                                        ELSE "Failed to fetch",
                              !.loading = FALSE, !.fetchData = "done"]
    /\ call' = [handler |-> "fetchData", arg |-> <<>>]
    /\ UNCHANGED <<stage, profile, scholarship, verdict, bm25_results,
                   vector_results, fused, interactions, now, history, candidates,
                   top_k, response, pipelineVars, earlier, gateVars, decayVars, hookVars,
                   shortlistVars,
                   mas_scholar_profile, page, search_id, ws, requests, uuid>>

(* await fetch(`/api/eligibility`) settles *)
EligibilityFetched(outcome) ==
    /\ details.fetchData = "eligibility"
    /\ details' =
         IF outcome = "ok"
         THEN LET v == calculate_eligibility(getSavedProfile[1], Catalog(details.id))
              IN  [details EXCEPT !.eligibility = <<[is_eligible |-> v.eligible,
                                                     match_score |-> v.score]>>,
                                  !.loading = FALSE, !.fetchData = "done"]
         ELSE [details EXCEPT !.scholarship = <<>>, !.error = "Failed to fetch",
                              !.loading = FALSE, !.fetchData = "done"]
    /\ call' = [handler |-> "fetchData", arg |-> <<>>]
    /\ UNCHANGED <<stage, profile, scholarship, verdict, bm25_results,
                   vector_results, fused, interactions, now, history, candidates,
                   top_k, response, pipelineVars, earlier, gateVars, decayVars, hookVars,
                   shortlistVars,
                   mas_scholar_profile, page, search_id, ws, requests, uuid>>

(* setTimeout(() => logClickInteraction(), 500): without a saved profile   *)
(* the function returns, otherwise the POST is on its way                  *)
ClickTimerFires ==
    /\ details.logClickInteraction = "timer"
    /\ details' = [details EXCEPT !.logClickInteraction =
                      IF getSavedProfile = <<>> THEN "returned" ELSE "sent"]
    /\ call' = [handler |-> "logClickInteraction", arg |-> <<>>]
    /\ UNCHANGED <<stage, profile, scholarship, verdict, bm25_results,
                   vector_results, fused, interactions, now, history, candidates,
                   top_k, response, pipelineVars, earlier, gateVars, decayVars, hookVars,
                   shortlistVars,
                   mas_scholar_profile, page, search_id, ws, requests, uuid>>

(* POST /api/log-interaction reaches the server, which stores the event *)
LogRequestArrives ==
    /\ details.logClickInteraction = "sent"
    /\ Len(interactions) < MaxLog
    /\ interactions' = Append(interactions, StoredEvent(details.id, now))
    /\ details' = [details EXCEPT !.logClickInteraction = "stored"]
    /\ call' = [handler |-> "log-interaction", arg |-> <<>>]
    /\ UNCHANGED <<stage, profile, scholarship, verdict, bm25_results,
                   vector_results, fused, now, history, candidates,
                   top_k, response, pipelineVars, earlier, gateVars, decayVars, hookVars,
                   shortlistVars,
                   mas_scholar_profile, page, search_id, ws, requests, uuid>>

(* variant: a rejected log call is reported like a failed load *)
LogCallSettles_ErrorShown(resolved) ==
    /\ details.logClickInteraction \in {"sent", "stored"}
    /\ resolved => details.logClickInteraction = "stored"
    /\ details' = IF resolved
                  THEN [details EXCEPT !.logClickInteraction = "resolved"]
                  ELSE [details EXCEPT !.logClickInteraction = "rejected",
                                       !.scholarship = <<>>,
                                       !.error = "Failed to fetch"]
    /\ call' = [handler |-> "logClickInteraction", arg |-> <<>>]
    /\ UNCHANGED <<stage, profile, scholarship, verdict, bm25_results,
                   vector_results, fused, interactions, now, history, candidates,
                   top_k, response, pipelineVars, earlier, gateVars, decayVars, hookVars,
                   shortlistVars,
                   mas_scholar_profile, page, search_id, ws, requests, uuid>>

(* the awaited fetch of logClickInteraction resolves (the server answered) *)
(* or rejects (the request or its answer was lost): catch { } is silent    *)
LogCallSettles(resolved) ==
    /\ details.logClickInteraction \in {"sent", "stored"}
    /\ resolved => details.logClickInteraction = "stored"
    /\ details' = [details EXCEPT !.logClickInteraction =
                      IF resolved THEN "resolved" ELSE "rejected"]
    /\ call' = [handler |-> "logClickInteraction", arg |-> <<>>]
    /\ UNCHANGED <<stage, profile, scholarship, verdict, bm25_results,
                   vector_results, fused, interactions, now, history, candidates,
                   top_k, response, pipelineVars, earlier, gateVars, decayVars, hookVars,
                   shortlistVars,
                   mas_scholar_profile, page, search_id, ws, requests, uuid>>

NextDetails ==
    \/ \E outcome \in {"ok", "not_found", "rejected"} : ScholarshipFetched(outcome)
    \/ \E outcome \in {"ok", "rejected"} : EligibilityFetched(outcome)
    \/ ClickTimerFires
    \/ LogRequestArrives
    \/ \E resolved \in BOOLEAN : LogCallSettles(resolved)

SpecDetails == InitDetails /\ [][NextDetails]_vars

----------------------------------------------------------------------------
(* Search page: performSearch, its WebSocket effect and the HTTP response  *)

STAGES == <<"START", "EMBEDDING", "VECTOR_SEARCH", "RRF_FUSION", "COMPLETE">>

(* stage names a message of the socket may carry; the last is not in STAGES *)
StageMessages == {"VECTOR_SEARCH", "RRF_FUSION", "rrf_fusion"}

(* ids of the demo entries demo-gov-1, demo-gov-2, demo-pvt-1, demo-scam-1 *)
MOCK_SCHOLARSHIPS == <<-1, -2, -3, -4>>

Chars == {" ", "m"}
Queries == UNION { [1..n -> Chars] : n \in 0..MaxQueryLen }

(* variant: the query is taken as typed *)
trim_Identity(s) == s

(* String.prototype.trim: leading and trailing white space removed *)
RECURSIVE trim(_)
trim(s) ==
    IF s = <<>> THEN s
    ELSE IF Head(s) = " " THEN trim(Tail(s))
    ELSE IF s[Len(s)] = " " THEN trim(SubSeq(s, 1, Len(s) - 1))
    ELSE s

(* the effect on [isLoading, searchParams]: its cleanup closes the socket  *)
Closed(socket) ==
    IF socket.state = "none" THEN socket ELSE [socket EXCEPT !.state = "closed"]

(* performSearch(searchQuery) up to its await fetch(`/api/search`) *)
performSearch(searchQuery) ==
    /\ call' = [handler |-> "performSearch", arg |-> searchQuery]
    /\ IF trim(searchQuery) = <<>>
       THEN UNCHANGED <<page, search_id, ws, requests, uuid>>
       ELSE /\ uuid < MaxSearches
            /\ uuid' = uuid + 1
            /\ page' = [page EXCEPT !.isLoading = TRUE]
            /\ search_id' = uuid + 1
            /\ requests' = requests \cup {[search_id |-> uuid + 1, phase |-> "fetch"]}
            /\ ws' = [state |-> "connecting", search_id |-> uuid + 1,
                      connected |-> FALSE]
    /\ UNCHANGED <<stage, profile, scholarship, verdict, bm25_results,
                   vector_results, fused, interactions, now, history, candidates,
                   top_k, response, pipelineVars, earlier, gateVars, decayVars, hookVars,
                   shortlistVars,
                   mas_scholar_profile, details>>

(* the connection is established *)
WsOpens ==
    /\ ws.state = "connecting"
    /\ ws' = [ws EXCEPT !.state = "open", !.connected = TRUE]
    /\ call' = [handler |-> "onopen", arg |-> <<>>]
    /\ UNCHANGED <<stage, profile, scholarship, verdict, bm25_results,
                   vector_results, fused, interactions, now, history, candidates,
                   top_k, response, pipelineVars, earlier, gateVars, decayVars, hookVars,
                   shortlistVars,
                   mas_scholar_profile, details, page, search_id, requests, uuid>>

(* ws.onmessage: a known stage name becomes the current stage *)
WsMessage(name) ==
    /\ ws.state = "open"
    /\ page' = IF \E i \in 1..Len(STAGES) : STAGES[i] = name
               THEN [page EXCEPT !.currentStage = name]
               ELSE page
    /\ call' = [handler |-> "onmessage", arg |-> <<name>>]
    /\ UNCHANGED <<stage, profile, scholarship, verdict, bm25_results,
                   vector_results, fused, interactions, now, history, candidates,
                   top_k, response, pipelineVars, earlier, gateVars, decayVars, hookVars,
                   shortlistVars,
                   mas_scholar_profile, details, search_id, ws, requests, uuid>>

(* variant: a socket error ends the search with the demo entries *)
WsError_Fallback ==
    /\ ws.state \in {"connecting", "open"}
    /\ ws' = [ws EXCEPT !.state = "error"]
    /\ page' = [page EXCEPT !.results = MOCK_SCHOLARSHIPS, !.isLoading = FALSE]
    /\ call' = [handler |-> "onerror", arg |-> <<>>]
    /\ UNCHANGED <<stage, profile, scholarship, verdict, bm25_results,
                   vector_results, fused, interactions, now, history, candidates,
                   top_k, response, pipelineVars, earlier, gateVars, decayVars, hookVars,
                   shortlistVars,
                   mas_scholar_profile, details, search_id, requests, uuid>>

(* ws.onerror: a warning on the console, nothing else *)
WsError ==
    /\ ws.state \in {"connecting", "open"}
    /\ ws' = [ws EXCEPT !.state = "error"]
    /\ call' = [handler |-> "onerror", arg |-> <<>>]
    /\ UNCHANGED <<stage, profile, scholarship, verdict, bm25_results,
                   vector_results, fused, interactions, now, history, candidates,
                   top_k, response, pipelineVars, earlier, gateVars, decayVars, hookVars,
                   shortlistVars,
                   mas_scholar_profile, details, page, search_id, requests, uuid>>

(* the fetch resolves with an ok response: setResults(data.results),       *)
(* setLatency, setMemoryActive, and the finally block                      *)
SearchResponds(id, data) ==
    /\ [search_id |-> id, phase |-> "fetch"] \in requests
    /\ requests' = requests \ {[search_id |-> id, phase |-> "fetch"]}
    /\ page' = [results |-> data.results, isLoading |-> FALSE,
                currentStage |-> "COMPLETE", latency |-> data.latency_ms,
                memoryActive |-> data.memory_influenced,
                shown |-> Shown(id, data.memory_influenced)]
    /\ ws' = Closed(ws)
    /\ call' = [handler |-> "response", arg |-> data.results]
    /\ UNCHANGED <<stage, profile, scholarship, verdict, bm25_results,
                   vector_results, fused, interactions, now, history, candidates,
                   top_k, response, pipelineVars, earlier, gateVars, decayVars, hookVars,
                   shortlistVars,
                   mas_scholar_profile, details, search_id, uuid>>

(* the fetch rejects or the response is not ok: the catch block starts its *)
(* 1500 ms wait                                                            *)
SearchFails(id) ==
    /\ [search_id |-> id, phase |-> "fetch"] \in requests
    /\ requests' = (requests \ {[search_id |-> id, phase |-> "fetch"]})
                     \cup {[search_id |-> id, phase |-> "fallback"]}
    /\ call' = [handler |-> "catch", arg |-> <<>>]
    /\ UNCHANGED <<stage, profile, scholarship, verdict, bm25_results,
                   vector_results, fused, interactions, now, history, candidates,
                   top_k, response, pipelineVars, earlier, gateVars, decayVars, hookVars,
                   shortlistVars,
                   mas_scholar_profile, details, page, search_id, ws, uuid>>

(* variant: the catch block shows the demo entries, the loading flag stays *)
FallbackShown_NoFinally(id) ==
    /\ [search_id |-> id, phase |-> "fallback"] \in requests
    /\ requests' = requests \ {[search_id |-> id, phase |-> "fallback"]}
    /\ page' = [page EXCEPT !.results = MOCK_SCHOLARSHIPS,
                            !.latency = FALLBACK_LATENCY,
                            !.shown = Shown(id, FALSE)]
    /\ ws' = ws
    /\ call' = [handler |-> "fallback", arg |-> <<>>]
    /\ UNCHANGED <<stage, profile, scholarship, verdict, bm25_results,
                   vector_results, fused, interactions, now, history, candidates,
                   top_k, response, pipelineVars, earlier, gateVars, decayVars,
                   hookVars, shortlistVars,
                   mas_scholar_profile, details, search_id, uuid>>

(* the wait is over: setResults(MOCK_SCHOLARSHIPS), setLatency(45) and the *)
(* finally block                                                           *)
FallbackShown(id) ==
    /\ [search_id |-> id, phase |-> "fallback"] \in requests
    /\ requests' = requests \ {[search_id |-> id, phase |-> "fallback"]}
    /\ page' = [page EXCEPT !.results = MOCK_SCHOLARSHIPS,
                            !.latency = FALLBACK_LATENCY,
                            !.isLoading = FALSE,
                            !.currentStage = "COMPLETE",
                            !.shown = Shown(id, FALSE)]
    /\ ws' = Closed(ws)
    /\ call' = [handler |-> "fallback", arg |-> <<>>]
    /\ UNCHANGED <<stage, profile, scholarship, verdict, bm25_results,
                   vector_results, fused, interactions, now, history, candidates,
                   top_k, response, pipelineVars, earlier, gateVars, decayVars, hookVars,
                   shortlistVars,
                   mas_scholar_profile, details, search_id, uuid>>

ResponseData ==
    [results : RankedLists(MaxHits, FALSE), latency_ms : {12},
     memory_influenced : BOOLEAN]

InitSearchPage ==
    /\ stage = "idle"
    /\ IdleServer
    /\ IdleGate
    /\ IdleClient

NextSearchPage ==
    \/ \E searchQuery \in Queries : performSearch(searchQuery)
    \/ WsOpens
    \/ \E name \in StageMessages : WsMessage(name)
    \/ WsError
    \/ \E id \in 1..MaxSearches, data \in ResponseData : SearchResponds(id, data)
    \/ \E id \in 1..MaxSearches : SearchFails(id)
    \/ \E id \in 1..MaxSearches : FallbackShown(id)

SpecSearchPage == InitSearchPage /\ [][NextSearchPage]_vars

----------------------------------------------------------------------------
(* Decay of one logged event, read on successive days                      *)

(* variant: the weight falls linearly to zero over two weeks *)
DecayedWeightAt_Linear(event, t) ==
    IF t - event.timestamp >= 14
    THEN 0
    ELSE (event.weight * (14 - (t - event.timestamp))) \div 14

(* w(t) = w0 * e^(-0.1 t), t the age of the event in days *)
DecayedWeightAt(event, t) == DecayedWeight(event.weight, t - event.timestamp)

InitDecay ==
    /\ stage = "idle"
    /\ profile = IdleProfile
    /\ scholarship = IdleEntry
    /\ verdict = IdleVerdict
    /\ bm25_results = <<>>
    /\ vector_results = <<>>
    /\ fused = <<>>
    /\ now \in 0..MaxDay
    /\ \E id \in Clicked : interactions = <<StoredEvent(id, now)>>
    /\ history = <<>>
    /\ candidates = <<>>
    /\ top_k = 1
    /\ response = <<>>
    /\ vector_failed = FALSE
    /\ progress_events = <<>>
    /\ earlier = <<>>
    /\ IdleGate
    /\ IdleClient

(* a day passes *)
DayPasses ==
    /\ now - interactions[1].timestamp < MaxAge
    /\ now' = now + 1
    /\ UNCHANGED <<stage, profile, scholarship, verdict, bm25_results,
                   vector_results, fused, interactions, history, candidates,
                   top_k, response, pipelineVars, earlier, gateVars, clientVars,
                   decayVars, hookVars, shortlistVars>>

(* the weight of the event is computed for a read of the log *)
ReadWeight ==
    /\ decay_reads' = decay_reads \cup
          { [age |-> now - interactions[1].timestamp,
             weight |-> DecayedWeightAt(interactions[1], now)] }
    /\ UNCHANGED <<stage, profile, scholarship, verdict, bm25_results,
                   vector_results, fused, interactions, now, history, candidates,
                   top_k, response, pipelineVars, earlier, gateVars, clientVars,
                   hookVars, shortlistVars>>

NextDecay == DayPasses \/ ReadWeight

SpecDecay == InitDecay /\ [][NextDecay]_vars

----------------------------------------------------------------------------
(* useAgentPipeline: connect, disconnect, reset, the handlers connect      *)
(* installs on its WebSocket, and the connection timeout                   *)

pageVars == <<mas_scholar_profile, details, page, search_id, ws, requests, uuid>>

(* stage names a message may carry; the last two end the search *)
StageNames == {"rrf_fusion", "complete", "error"}

(* StageData as parsed from a message *)
StageData(name, progress, message, total_latency_ms) ==
    [stage |-> name, progress |-> progress, message |-> message,
     total_latency_ms |-> total_latency_ms]

(* the messages of the server: progress reports of a stage, the final      *)
(* message with the total latency, the error message with its text; a      *)
(* total_latency_ms of 0 stands for an absent one                          *)
Messages ==
    { StageData("rrf_fusion", progress, "", 0) : progress \in {50, 60} }
      \cup { StageData("complete", 100, "", 40), StageData("error", 0, "failed", 0) }

(* new WebSocket(url) *)
NewSocket == [readyState |-> "CONNECTING", opened |-> FALSE]

(* ws.close(): a socket that is not closed starts closing *)
Close(socket) ==
    IF socket.readyState \in {"CONNECTING", "OPEN"}
    THEN [socket EXCEPT !.readyState = "CLOSING"]
    ELSE socket

(* wsRef.current.close() when wsRef.current is set *)
CloseCurrent(all) ==
    IF wsRef = 0 THEN all ELSE [all EXCEPT ![wsRef] = Close(all[wsRef])]

(* prev.stages.findIndex((s) => s.stage === data.stage); 0 stands for -1 *)
findIndex(stages, name) ==
    IF \E i \in 1..Len(stages) : stages[i].stage = name
    THEN CHOOSE i \in 1..Len(stages) :
            /\ stages[i].stage = name
            /\ \A j \in 1..(i - 1) : stages[j].stage # name
    ELSE 0

(* variant: every message adds an entry *)
newStages_AlwaysAppended(stages, data) == Append(stages, data)

(* newStages: the entry of the stage replaced in place, or a new last entry *)
newStages(stages, data) ==
    IF findIndex(stages, data.stage) > 0
    THEN [stages EXCEPT ![findIndex(stages, data.stage)] = data]
    ELSE Append(stages, data)

isFinal(data) == data.stage \in {"complete", "error"}

(* connect(query, profile) *)
connect ==
    /\ Len(sockets) < MaxConnects
    /\ isCompleteRef' = FALSE
    /\ state' = [IdleState EXCEPT !.isActive = TRUE]
    /\ sockets' = Append(CloseCurrent(sockets), NewSocket)
    /\ wsRef' = Len(sockets) + 1
    /\ timeoutRef' = Len(sockets) + 1
    /\ timers' = timers \cup {Len(sockets) + 1}
    /\ call' = [handler |-> "connect", arg |-> <<Len(sockets) + 1>>]
    /\ UNCHANGED <<stage, profile, scholarship, verdict, bm25_results,
                   vector_results, fused, interactions, now, history, candidates,
                   top_k, response, pipelineVars, earlier, gateVars, pageVars,
                   decayVars, shortlistVars>>

(* disconnect() *)
disconnect ==
    /\ sockets # <<>>
    /\ timers' = timers \ {timeoutRef}
    /\ timeoutRef' = 0
    /\ sockets' = CloseCurrent(sockets)
    /\ wsRef' = 0
    /\ state' = [state EXCEPT !.isActive = FALSE, !.isConnected = FALSE]
    /\ call' = [handler |-> "disconnect", arg |-> <<>>]
    /\ UNCHANGED <<stage, profile, scholarship, verdict, bm25_results,
                   vector_results, fused, interactions, now, history, candidates,
                   top_k, response, pipelineVars, earlier, gateVars, pageVars,
                   decayVars, shortlistVars, isCompleteRef>>

(* reset(): disconnect(), then the initial state *)
reset ==
    /\ sockets # <<>>
    /\ timers' = timers \ {timeoutRef}
    /\ timeoutRef' = 0
    /\ sockets' = CloseCurrent(sockets)
    /\ wsRef' = 0
    /\ state' = IdleState
    /\ isCompleteRef' = FALSE
    /\ call' = [handler |-> "reset", arg |-> <<>>]
    /\ UNCHANGED <<stage, profile, scholarship, verdict, bm25_results,
                   vector_results, fused, interactions, now, history, candidates,
                   top_k, response, pipelineVars, earlier, gateVars, pageVars,
                   decayVars, shortlistVars>>

(* the setTimeout callback of the connect() that created socket c *)
ConnectionTimeout(c) ==
    /\ c \in timers
    /\ timers' = timers \ {c}
    /\ IF sockets[c].readyState # "CLOSED"
       THEN /\ sockets' = [sockets EXCEPT ![c] = Close(sockets[c])]
            /\ state' = [state EXCEPT !.isActive = FALSE, !.error = "timeout"]
       ELSE UNCHANGED <<sockets, state>>
    /\ call' = [handler |-> "timeout", arg |-> <<c>>]
    /\ UNCHANGED <<stage, profile, scholarship, verdict, bm25_results,
                   vector_results, fused, interactions, now, history, candidates,
                   top_k, response, pipelineVars, earlier, gateVars, pageVars,
                   decayVars, shortlistVars, wsRef, timeoutRef, isCompleteRef>>

(* ws.onopen of socket c *)
onopen(c) ==
    /\ sockets[c].readyState = "CONNECTING"
    /\ sockets' = [sockets EXCEPT ![c] = [readyState |-> "OPEN", opened |-> TRUE]]
    /\ state' = [state EXCEPT !.isConnected = TRUE]
    /\ call' = [handler |-> "onopen", arg |-> <<c>>]
    /\ UNCHANGED <<stage, profile, scholarship, verdict, bm25_results,
                   vector_results, fused, interactions, now, history, candidates,
                   top_k, response, pipelineVars, earlier, gateVars, pageVars,
                   decayVars, shortlistVars, wsRef, timeoutRef, isCompleteRef,
                   timers>>

(* variant: a final message leaves the connection timeout pending *)
onmessage_TimeoutKept(c, data) ==
    /\ sockets[c].readyState = "OPEN"
    /\ isCompleteRef' = (isCompleteRef \/ isFinal(data))
    /\ state' = [state EXCEPT
                   !.stages = newStages(state.stages, data),
                   !.currentStage = data.stage,
                   !.progress = data.progress,
                   !.isActive = ~isFinal(data),
                   !.totalLatency = IF data.total_latency_ms # 0
                                    THEN data.total_latency_ms
                                    ELSE state.totalLatency,
                   !.error = IF data.stage = "error" THEN data.message ELSE ""]
    /\ UNCHANGED <<timers, timeoutRef>>
    /\ call' = [handler |-> "onmessage", arg |-> <<c, data>>]
    /\ UNCHANGED <<stage, profile, scholarship, verdict, bm25_results,
                   vector_results, fused, interactions, now, history, candidates,
                   top_k, response, pipelineVars, earlier, gateVars, pageVars,
                   decayVars, shortlistVars, wsRef, sockets>>

(* ws.onmessage of socket c with a message that parses as StageData *)
onmessage(c, data) ==
    /\ sockets[c].readyState = "OPEN"
    /\ isCompleteRef' = (isCompleteRef \/ isFinal(data))
    /\ state' = [state EXCEPT
                   !.stages = newStages(state.stages, data),
                   !.currentStage = data.stage,
                   !.progress = data.progress,
                   !.isActive = ~isFinal(data),
                   !.totalLatency = IF data.total_latency_ms # 0
                                    THEN data.total_latency_ms
                                    ELSE state.totalLatency,
                   !.error = IF data.stage = "error" THEN data.message ELSE ""]
    /\ IF isFinal(data)
       THEN /\ timers' = timers \ {timeoutRef}
            /\ timeoutRef' = 0
       ELSE UNCHANGED <<timers, timeoutRef>>
    /\ call' = [handler |-> "onmessage", arg |-> <<c, data>>]
    /\ UNCHANGED <<stage, profile, scholarship, verdict, bm25_results,
                   vector_results, fused, interactions, now, history, candidates,
                   top_k, response, pipelineVars, earlier, gateVars, pageVars,
                   decayVars, shortlistVars, wsRef, sockets>>

(* socket c is closed: ws.onerror first when the connection failed, then   *)
(* ws.onclose, both in the task that closes the socket                     *)
onclose(c, failed) ==
    /\ sockets[c].readyState # "CLOSED"
    /\ failed => sockets[c].readyState # "CLOSING" \/ ~sockets[c].opened
    /\ sockets' = [sockets EXCEPT ![c].readyState = "CLOSED"]
    /\ state' = [state EXCEPT
                   !.error = IF failed THEN "connection failed" ELSE state.error,
                   !.isConnected = FALSE,
                   !.isActive = FALSE]
    /\ wsRef' = IF wsRef = c THEN 0 ELSE wsRef
    /\ call' = [handler |-> "onclose", arg |-> <<c>>]
    /\ UNCHANGED <<stage, profile, scholarship, verdict, bm25_results,
                   vector_results, fused, interactions, now, history, candidates,
                   top_k, response, pipelineVars, earlier, gateVars, pageVars,
                   decayVars, shortlistVars, timeoutRef, isCompleteRef, timers>>

InitAgentPipeline ==
    /\ stage = "idle"
    /\ IdleServer
    /\ IdleGate
    /\ IdleClient

NextAgentPipeline ==
    \/ connect
    \/ disconnect
    \/ reset
    \/ \E c \in 1..Len(sockets) : ConnectionTimeout(c)
    \/ \E c \in 1..Len(sockets) : onopen(c)
    \/ \E c \in 1..Len(sockets), data \in Messages : onmessage(c, data)
    \/ \E c \in 1..Len(sockets), failed \in BOOLEAN : onclose(c, failed)

SpecAgentPipeline == InitAgentPipeline /\ [][NextAgentPipeline]_vars

(* a pending setTimeout callback is run by the event loop *)
TimeoutsFire == WF_vars(\E c \in 1..Len(sockets) : ConnectionTimeout(c))

SpecAgentPipelineFair == SpecAgentPipeline /\ TimeoutsFire

----------------------------------------------------------------------------
(* The agent trigger applied to the fused list ("triggered when hybrid RRF *)
(* top score < 0.6")                                                       *)

(* a fused score in the fixed point of the trigger, rounded down: the      *)
(* hundredths are below 60 exactly when the score is below 0.6             *)
Hundredths(score) == (100 * score.n) \div score.d

FusedScores(items) == [i \in 1..Len(items) |-> Hundredths(items[i].score)]

TriggerOnFused ==
    /\ stage = "fusion_output"
    /\ stage' = "gate_output"
    /\ retrieval_results' = FusedScores(fused)
    /\ trigger' = should_trigger_agent(FusedScores(fused), <<>>)
    /\ UNCHANGED <<profile, scholarship, verdict, bm25_results, vector_results,
                   fused, interactions, now, history, candidates, top_k, response,
                   pipelineVars, earlier, decayVars, hookVars, shortlistVars,
                   clientVars>>

NextFusedGate == Fuse \/ TriggerOnFused

SpecFusedGate == InitFusion /\ [][NextFusedGate]_vars

----------------------------------------------------------------------------
(* The shortlist in localStorage: details pages toggle an entry, the       *)
(* saved-scholarships page removes entries. An entry is stood for by its   *)
(* scholarship id.                                                         *)

(* shortlist.some((s) => s.id === id) *)
some(shortlist, id) == \E i \in 1..Len(shortlist) : shortlist[i] = id

(* shortlist.filter((s) => s.id !== id) *)
filter(shortlist, id) == SelectSeq(shortlist, LAMBDA s : s # id)

(* a details page is mounted for scholarship id: isShortlisted starts      *)
(* false and the effect sets it when the stored shortlist has the id       *)
OpenDetailsPage(id) ==
    /\ Len(details_pages) < MaxPages
    /\ details_pages' = Append(details_pages,
                               [id |-> id, scholarship |-> <<>>,
                                isShortlisted |-> some(mas_scholar_shortlist, id)])
    /\ call' = [handler |-> "mount", arg |-> <<id>>]
    /\ UNCHANGED <<stage, profile, scholarship, verdict, bm25_results,
                   vector_results, fused, interactions, now, history, candidates,
                   top_k, response, pipelineVars, earlier, gateVars, pageVars,
                   decayVars, hookVars, mas_scholar_shortlist, shortlist_page>>

(* setScholarship(schData) of page p *)
ScholarshipLoaded(p) ==
    /\ details_pages[p].scholarship = <<>>
    /\ details_pages' = [details_pages EXCEPT ![p].scholarship = <<details_pages[p].id>>]
    /\ call' = [handler |-> "setScholarship", arg |-> <<p>>]
    /\ UNCHANGED <<stage, profile, scholarship, verdict, bm25_results,
                   vector_results, fused, interactions, now, history, candidates,
                   top_k, response, pipelineVars, earlier, gateVars, pageVars,
                   decayVars, hookVars, mas_scholar_shortlist, shortlist_page>>

(* toggleShortlist() of page p, once its scholarship is loaded; the model *)
(* stops adding at MaxShortlist entries                                   *)
toggleShortlist(p) ==
    /\ details_pages[p].scholarship # <<>>
    /\ details_pages[p].isShortlisted \/ Len(mas_scholar_shortlist) < MaxShortlist
    /\ mas_scholar_shortlist' =
          IF details_pages[p].isShortlisted
          THEN filter(mas_scholar_shortlist, details_pages[p].id)
          ELSE Append(mas_scholar_shortlist, details_pages[p].scholarship[1])
    /\ details_pages' = [details_pages EXCEPT
                           ![p].isShortlisted = ~details_pages[p].isShortlisted]
    /\ call' = [handler |-> "toggleShortlist", arg |-> <<details_pages[p].id>>]
    /\ UNCHANGED <<stage, profile, scholarship, verdict, bm25_results,
                   vector_results, fused, interactions, now, history, candidates,
                   top_k, response, pipelineVars, earlier, gateVars, pageVars,
                   decayVars, hookVars, shortlist_page>>

(* the saved-scholarships page is mounted: its effect copies the stored    *)
(* shortlist into items                                                    *)
LoadShortlistPage ==
    /\ shortlist_page' = [loaded |-> TRUE, items |-> mas_scholar_shortlist]
    /\ call' = [handler |-> "load", arg |-> <<>>]
    /\ UNCHANGED <<stage, profile, scholarship, verdict, bm25_results,
                   vector_results, fused, interactions, now, history, candidates,
                   top_k, response, pipelineVars, earlier, gateVars, pageVars,
                   decayVars, hookVars, mas_scholar_shortlist, details_pages>>

(* removeItem(id) of the saved-scholarships page, for an item it shows *)
removeItem(id) ==
    /\ shortlist_page.loaded
    /\ some(shortlist_page.items, id)
    /\ shortlist_page' = [shortlist_page EXCEPT !.items = filter(shortlist_page.items, id)]
    /\ mas_scholar_shortlist' = filter(shortlist_page.items, id)
    /\ call' = [handler |-> "removeItem", arg |-> <<id>>]
    /\ UNCHANGED <<stage, profile, scholarship, verdict, bm25_results,
                   vector_results, fused, interactions, now, history, candidates,
                   top_k, response, pipelineVars, earlier, gateVars, pageVars,
                   decayVars, hookVars, details_pages>>

InitShortlist ==
    /\ stage = "idle"
    /\ IdleServer
    /\ IdleGate
    /\ IdleClient

NextShortlist ==
    \/ \E id \in Focus : OpenDetailsPage(id)
    \/ \E p \in 1..Len(details_pages) : ScholarshipLoaded(p)
    \/ \E p \in 1..Len(details_pages) : toggleShortlist(p)
    \/ LoadShortlistPage
    \/ \E id \in Focus : removeItem(id)

SpecShortlist == InitShortlist /\ [][NextShortlist]_vars

----------------------------------------------------------------------------
(* Properties                                                              *)

Positive(r) == r.n > 0

(* C1: every candidate of a search response whose eligibility verdict is   *)
(* eligible=false has final score 0, whatever its fused score and memory   *)
(* boost are.                                                              *)
C1_IneligibleFinalScoreZero ==
    \A i \in 1..Len(response) :
        ~response[i].eligible => response[i].final_score.n = 0

(* a completed response holding an ineligible candidate that has both a    *)
(* positive fused score and a positive memory boost                        *)
C1_Witness ==
    /\ stage = "complete"
    /\ \E i \in 1..Len(response) :
         /\ ~response[i].eligible
         /\ Positive(response[i].fused_score)
         /\ response[i].memory_boost > 0

LaterCriteria(criterion) ==
    IF criterion = "category"
    THEN {"income", "state", "education", "gender", "trust"}
    ELSE {"state", "education", "gender", "trust"}

CategoryMatches == profile.category \in scholarship.categories
IncomeWithinCeiling == profile.income <= scholarship.max_income

NoCheckOf(criteria) ==
    \A i \in 1..Len(verdict.checks) : verdict.checks[i].criterion \notin criteria

(* C2: a failed hard requirement (category not among the eligible          *)
(* categories, or income above the ceiling) yields eligible=false and      *)
(* score=0, and no criterion after the failed one is evaluated.            *)
C2_HardRequirementShortCircuits ==
    stage = "eligibility_response" =>
        /\ ~CategoryMatches =>
             /\ ~verdict.eligible
             /\ verdict.score = 0
             /\ NoCheckOf(LaterCriteria("category"))
        /\ (CategoryMatches /\ ~IncomeWithinCeiling) =>
             /\ ~verdict.eligible
             /\ verdict.score = 0
             /\ NoCheckOf(LaterCriteria("income"))

(* the income ceiling fails for an entry whose soft criteria would all     *)
(* have awarded points                                                     *)
C2_Witness ==
    /\ stage = "eligibility_response"
    /\ CategoryMatches
    /\ ~IncomeWithinCeiling
    /\ profile.region \in scholarship.regions
    /\ profile.education \in scholarship.education_levels
    /\ profile.gender \in scholarship.genders
    /\ scholarship.trusted

PointsOf(criterion) ==
    CASE criterion = "category" -> CATEGORY_POINTS
      [] criterion = "income" -> INCOME_POINTS
      [] criterion = "state" -> STATE_POINTS
      [] criterion = "education" -> EDUCATION_POINTS
      [] criterion = "gender" -> GENDER_POINTS
      [] criterion = "trust" -> TRUST_POINTS

RECURSIVE BreakdownPoints(_, _)
BreakdownPoints(checks, i) ==
    IF i > Len(checks)
    THEN 0
    ELSE (IF checks[i].passed THEN PointsOf(checks[i].criterion) ELSE 0)
         + BreakdownPoints(checks, i + 1)

(* C3: when both hard requirements pass, the score is an integer in        *)
(* 0..100 equal to the sum of the awarded criterion points, and eligible   *)
(* is true exactly when the score is at least 60.                          *)
C3_ScoreIsSumAndThreshold ==
    (stage = "eligibility_response" /\ CategoryMatches /\ IncomeWithinCeiling) =>
        /\ verdict.score \in 0..100
        /\ verdict.score = BreakdownPoints(verdict.checks, 1)
        /\ verdict.eligible <=> (verdict.score >= 60)

(* both hard requirements pass and nothing else does: 55 points, not       *)
(* eligible                                                                *)
C3_Witness ==
    /\ stage = "eligibility_response"
    /\ CategoryMatches
    /\ IncomeWithinCeiling
    /\ verdict.score = CATEGORY_POINTS + INCOME_POINTS
    /\ ~verdict.eligible

IncomeCriterionPassed ==
    \E i \in 1..Len(verdict.checks) :
        verdict.checks[i].criterion = "income" /\ verdict.checks[i].passed

(* C4: the income criterion passes if and only if income <= ceiling; it    *)
(* passes at income = ceiling and fails at income = ceiling + 1.           *)
C4_IncomeBoundary ==
    (stage = "eligibility_response" /\ CategoryMatches) =>
        /\ IncomeCriterionPassed <=> (profile.income <= scholarship.max_income)
        /\ profile.income = scholarship.max_income => IncomeCriterionPassed
        /\ profile.income = scholarship.max_income + 1 => ~IncomeCriterionPassed

(* an income exactly at the ceiling has been evaluated and passed *)
C4_Witness ==
    /\ stage = "eligibility_response"
    /\ CategoryMatches
    /\ profile.income = scholarship.max_income
    /\ IncomeCriterionPassed

(* C5: every evaluated criterion leaves one (criterion, passed) entry in   *)
(* the breakdown, also when it fails: the category entry is always first,  *)
(* and the income entry follows it whenever the category matched.          *)
C5_EveryEvaluatedCriterionRecorded ==
    stage = "eligibility_response" =>
        /\ Len(verdict.checks) >= 1
        /\ verdict.checks[1] = Check("category", CategoryMatches)
        /\ CategoryMatches =>
             /\ Len(verdict.checks) >= 2
             /\ verdict.checks[2] = Check("income", IncomeWithinCeiling)

RankIn(results, id) ==
    IF \E r \in 1..Len(results) : results[r] = id
    THEN CHOOSE r \in 1..Len(results) : results[r] = id
    ELSE 0

Reciprocal(results, id) ==
    IF RankIn(results, id) = 0 THEN RZero ELSE Rat(1, 60 + RankIn(results, id))

ExpectedFused(id) == RAdd(Reciprocal(bm25_results, id), Reciprocal(vector_results, id))

Listed(results) == { results[r] : r \in 1..Len(results) }

C7_TieBreakByCatalogOrder ==
    stage = "fusion_output" =>
        \A i, j \in 1..Len(fused) :
            (i < j /\ REq(fused[i].score, fused[j].score)) => fused[i].id < fused[j].id

(* C8: the entry ranked first by the lexical index is at position 1 of     *)
(* the fused ranking even when its vector rank is worse than 10.           *)
C8_ExactIdentifierRanksFirst ==
    (/\ stage = "fusion_output"
     /\ Len(bm25_results) >= 1
     /\ RankIn(vector_results, bm25_results[1]) > 10) =>
        fused[1].id = bm25_results[1]

MemoryContribution(c) == Rat(3 * c.memory_boost, 10 * 1000)

(* C9: for every candidate with a non-zero final score, the memory term    *)
(* 0.3*boost is at most 30% of the final score 0.7*fused + 0.3*boost.      *)
C9_MemoryAtMostThirtyPercent ==
    \A i \in 1..Len(response) :
        Positive(response[i].final_score) =>
            RLe(MemoryContribution(response[i]),
                Rat(3 * response[i].final_score.n, 10 * response[i].final_score.d))

Boosted == stage \in {"memory_boost", "eligibility_check", "complete"}

(* C10: with fewer than 2 stored interaction events the memory boost of    *)
(* every candidate is exactly 0, whatever the similarity.                  *)
C10_ColdStartZeroBoost ==
    (Boosted /\ Len(history) < 2) =>
        /\ \A i \in 1..Len(candidates) : candidates[i].memory_boost = 0
        /\ \A i \in 1..Len(response) : response[i].memory_boost = 0

(* one stored event, fully similar to a candidate of the request *)
C10_Witness ==
    /\ stage = "memory_boost"
    /\ Len(history) = 1
    /\ \E i \in 1..Len(candidates) :
         /\ Similarity(candidates[i].id, history[1]) = 1000
         /\ candidates[i].memory_boost = 0

(* the second stored event makes a non-zero boost possible *)
C10_SecondEventBoosts ==
    /\ stage = "memory_boost"
    /\ Len(history) = 2
    /\ \E i \in 1..Len(candidates) : candidates[i].memory_boost > 0

TopScoreLow == retrieval_results # <<>> /\ retrieval_results[1] < 60
FewCandidates == Len(retrieval_results) < 3
ScoresSpread == StdAbove(retrieval_results, 25)

(* C12: the gate signals the fallback if and only if the top score is      *)
(* below 0.6, or fewer than 3 candidates were returned, or the standard    *)
(* deviation of the scores is above 0.25; it always gives an answer.       *)
C12_FallbackIffAnyTrigger ==
    stage = "gate_output" =>
        /\ ~trigger.raised
        /\ trigger.value <=> (TopScoreLow \/ FewCandidates \/ ScoresSpread)

(* Scenario C: top score 0.55 with 2 candidates signals the fallback *)
C12_ScenarioC ==
    /\ stage = "gate_output"
    /\ Len(retrieval_results) = 2
    /\ retrieval_results[1] = 55
    /\ trigger.value

LeftOut == { i \in 1..Len(candidates) :
               \A j \in 1..Len(response) : response[j].id # candidates[i].id }

(* C13: the assembled list has at most top_k candidates, is sorted by      *)
(* final score in non-increasing order, and no candidate left out by the   *)
(* truncation has a higher final score than one that is in the list.       *)
C13_TopKSortedByFinalScore ==
    stage = "complete" =>
        /\ Len(response) <= top_k
        /\ \A i, j \in 1..Len(response) :
             i < j => RLe(response[j].final_score, response[i].final_score)
        /\ \A i \in LeftOut : \A j \in 1..Len(response) :
             RLe(FinalScore(candidates[i]), response[j].final_score)

(* the truncation left out the candidate that the fusion had ranked first *)
C13_Witness ==
    /\ stage = "complete"
    /\ Len(response) = top_k
    /\ 1 \in LeftOut
    /\ Positive(response[1].final_score)

(* C14: of two eligible candidates with the same fused score, for a user   *)
(* with at least 2 logged interactions, the one with the strictly larger   *)
(* memory boost has the strictly higher final score, and the two final     *)
(* scores differ by at most 0.3.                                           *)
C14_BoostOrdersEqualFusedScores ==
    (stage = "complete" /\ Len(history) >= 2) =>
        \A i, j \in 1..Len(response) :
            (/\ response[i].eligible
             /\ response[j].eligible
             /\ REq(response[i].fused_score, response[j].fused_score)
             /\ response[i].memory_boost > response[j].memory_boost) =>
                /\ RLt(response[j].final_score, response[i].final_score)
                /\ RLe(response[i].final_score,
                       RAdd(response[j].final_score, Rat(3, 10)))

(* two eligible candidates, equal fused scores, different boosts *)
C14_Witness ==
    /\ stage = "complete"
    /\ Len(history) >= 2
    /\ \E i, j \in 1..Len(response) :
         /\ response[i].eligible
         /\ response[j].eligible
         /\ REq(response[i].fused_score, response[j].fused_score)
         /\ response[i].memory_boost > response[j].memory_boost

C16_ClickLogNeverAffectsPage ==
    [][/\ details'.logClickInteraction # details.logClickInteraction =>
            Rendered(details') = Rendered(details)
       /\ details.fetchData = "scholarship" => ENABLED ScholarshipFetched("ok")
       /\ mas_scholar_profile' = <<>> => interactions' = <<>>]_vars

(* the scholarship is shown while the log call has not returned *)
C16_Witness ==
    /\ details.fetchData = "done"
    /\ ~details.loading
    /\ details.scholarship = <<details.id>>
    /\ details.logClickInteraction = "sent"

(* the scholarship is shown after the log call was rejected *)
C16_ShownAfterRejection ==
    /\ details.fetchData = "done"
    /\ details.scholarship = <<details.id>>
    /\ details.logClickInteraction = "rejected"

Blank(query) == \A i \in 1..Len(query) : query[i] = " "

(* C17: performSearch with an empty or whitespace-only query changes       *)
(* nothing: no request is sent, and results, loading flag, stage, socket   *)
(* and the search_id of the URL stay as they were.                         *)
C17_BlankQueryChangesNothing ==
    [][(call'.handler = "performSearch" /\ Blank(call'.arg)) =>
          /\ page' = page
          /\ search_id' = search_id
          /\ requests' = requests
          /\ ws' = ws
          /\ uuid' = uuid]_vars

(* a whitespace-only query was submitted on a page that shows results *)
C17_Witness ==
    /\ call.handler = "performSearch"
    /\ Len(call.arg) >= 1
    /\ Blank(call.arg)
    /\ Len(page.results) >= 1
    /\ ~page.isLoading

SocketHandlers == {"onopen", "onmessage", "onerror"}

(* C18: no event of the WebSocket changes the results, the loading flag    *)
(* or the pending requests; the response of a pending search request can   *)
(* arrive whatever the state of the socket is, and its results are the     *)
(* ones shown.                                                             *)
C18_ResultsIndependentOfSocket ==
    [][/\ call'.handler \in SocketHandlers =>
            /\ page'.results = page.results
            /\ page'.isLoading = page.isLoading
            /\ requests' = requests
       /\ \A r \in requests :
            r.phase = "fetch" =>
                ENABLED SearchResponds(r.search_id,
                                       [results |-> <<>>, latency_ms |-> 12,
                                        memory_influenced |-> FALSE])
       /\ call'.handler = "response" =>
            /\ page'.results = call'.arg
            /\ ~page'.isLoading]_vars

(* results are shown although the socket never connected *)
C18_Witness ==
    /\ call.handler = "response"
    /\ Len(page.results) >= 1
    /\ page.results = call.arg
    /\ ws.state = "closed"
    /\ ~ws.connected

Position(name) ==
    IF \E i \in 1..Len(progress_events) : progress_events[i] = name
    THEN CHOOSE i \in 1..Len(progress_events) : progress_events[i] = name
    ELSE 0

Before(first, second) ==
    Position(second) # 0 => (Position(first) # 0 /\ Position(first) < Position(second))

Terminal == {"complete", "error"}

ExpMinusTenth == 1000000 - 100000 + 5000 - 167 + 4

Abs(x) == IF x < 0 THEN -x ELSE x

(* C21: the weight read at age 0 is the initial weight 1.0; the weight     *)
(* read one day later is e^(-0.1) times the weight of the day before (up   *)
(* to the rounding to thousandths); the weight read at age 7 is half the  *)
(* weight at age 0 within one percent; and a weight read at a greater age  *)
(* is never larger                                                         *)
C21_DecayHalvesInSevenDays ==
    \A r \in decay_reads :
      /\ r.age = 0 => r.weight = INITIAL_WEIGHT
      /\ \A q \in decay_reads :
           /\ q.age = r.age + 1 =>
                Abs(1000000 * q.weight - ExpMinusTenth * r.weight) <= 1000000
           /\ (r.age = 0 /\ q.age = 7) =>
                Abs(2 * q.weight - r.weight) * 100 <= r.weight
           /\ r.age <= q.age => q.weight <= r.weight

(* the weight of one event has been read on the day it was logged, seven   *)
(* days later and on the day after that                                    *)
C21_Witness ==
    /\ \E r \in decay_reads : r.age = 0
    /\ \E r \in decay_reads : r.age = 7 /\ r.weight < INITIAL_WEIGHT
    /\ \E r \in decay_reads : r.age = 8

(* C22: a search request that threw or came back not ok always reaches     *)
(* the end of its catch block, and the step that ends it leaves the demo   *)
(* entries as results, the loading flag false and the stage COMPLETE       *)
C22_BackendUnavailableShowsDemo ==
    [][/\ \A r \in requests :
            /\ r.phase = "fetch" => ENABLED SearchFails(r.search_id)
            /\ r.phase = "fallback" => ENABLED FallbackShown(r.search_id)
       /\ call'.handler = "fallback" =>
            /\ page'.results = MOCK_SCHOLARSHIPS
            /\ page'.latency = FALLBACK_LATENCY
            /\ ~page'.isLoading
            /\ page'.currentStage = "COMPLETE"]_vars

(* the only search of the page failed and its fallback is on display *)
C22_Witness ==
    /\ call.handler = "fallback"
    /\ uuid = 1
    /\ requests = {}
    /\ page.results = MOCK_SCHOLARSHIPS
    /\ ~page.isLoading
    /\ page.currentStage = "COMPLETE"

(* the socket of the running search closed while its timeout was pending:  *)
(* not by disconnect(), not by the timeout, not after a final message      *)
Interrupted ==
    /\ call.handler = "onclose"
    /\ call.arg[1] = Len(sockets)
    /\ call.arg[1] \in timers
    /\ ~isCompleteRef

Reconnected ==
    /\ sockets # <<>>
    /\ sockets[Len(sockets)].readyState \in {"CONNECTING", "OPEN"}

(* C23: after the socket of a search that has not completed closes, the    *)
(* client has a connecting or open socket again                            *)
C23_ReconnectsAfterDisconnect == Interrupted ~> Reconnected

(* C24: the stages list never holds two entries of one stage name; a       *)
(* message of a stage in the list replaces that entry and leaves every     *)
(* other entry where it was, a message of a new stage becomes the last     *)
(* entry                                                                   *)
C24_OneEntryPerStage ==
    [][/\ \A i, j \in 1..Len(state'.stages) :
            i # j => state'.stages[i].stage # state'.stages[j].stage
       /\ call'.handler = "onmessage" =>
            IF \E i \in 1..Len(state.stages) : state.stages[i].stage = call'.arg[2].stage
            THEN /\ Len(state'.stages) = Len(state.stages)
                 /\ \A i \in 1..Len(state.stages) :
                      state'.stages[i] =
                        IF state.stages[i].stage = call'.arg[2].stage
                        THEN call'.arg[2]
                        ELSE state.stages[i]
            ELSE state'.stages = state.stages \o <<call'.arg[2]>>]_vars

(* the last message replaced the second of three entries *)
C24_Witness ==
    /\ call.handler = "onmessage"
    /\ Len(state.stages) = 3
    /\ state.stages[2] = call.arg[2]
    /\ state.stages[2].progress = 60

(* C26: the close (with its error) and the timeout of a socket older than  *)
(* the one of the running search leave isActive, isConnected and error as  *)
(* they were                                                               *)
C26_StaleEventsIgnored ==
    [][(call'.handler \in {"onclose", "timeout"} /\ call'.arg[1] < Len(sockets)) =>
            /\ state'.isActive = state.isActive
            /\ state'.isConnected = state.isConnected
            /\ state'.error = state.error]_vars

(* C27: after every connect() isActive becomes false; and while the final  *)
(* message of the running search has been processed, the timeout of that   *)
(* search is not pending                                                   *)
C27_SearchEndsAndTimeoutCleared ==
    /\ (call.handler = "connect") ~> ~state.isActive
    /\ [](/\ isCompleteRef => Len(sockets) \notin timers
          /\ (call.handler = "onmessage" /\ call.arg[2].stage \in {"complete", "error"})
                => call.arg[1] \notin timers)

(* the timeout of a search fired while its socket was open: the socket is  *)
(* closing, the search is inactive and reports the timeout                 *)
C27_Witness ==
    /\ call.handler = "timeout"
    /\ call.arg[1] = Len(sockets)
    /\ sockets[Len(sockets)].readyState = "CLOSING"
    /\ sockets[Len(sockets)].opened
    /\ state.error = "timeout"
    /\ ~state.isActive

(* a final message was processed and the search is inactive with no        *)
(* timeout pending                                                         *)
C27_CompletedWitness ==
    /\ call.handler = "onmessage"
    /\ call.arg[2].stage = "complete"
    /\ ~state.isActive
    /\ timers = {}

(* C25: once every request of the page has settled and a second search     *)
(* was submitted, the results and latency on display are the ones fetched  *)
(* by the search submitted last, and the loading flag is off               *)
C25_LaterQueryWins ==
    (uuid >= 2 /\ requests = {}) =>
        /\ page.shown.search_id = uuid
        /\ ~page.isLoading

(* C28: the memory flag is on only if the response on display reported     *)
(* memory_influenced, and it is off while the demo entries are on display  *)
C28_MemoryFlagMatchesShownResults ==
    /\ page.memoryActive => page.shown.memory_influenced
    /\ page.results = MOCK_SCHOLARSHIPS => ~page.memoryActive

(* C29: every fused score of a request is at most 2/61, and the trigger    *)
(* returns True (fallback) for every request                               *)
C29_GateAlwaysSignalsFallback ==
    stage = "gate_output" =>
        /\ \A i \in 1..Len(fused) : RLe(fused[i].score, Rat(2, RRF_K + 1))
        /\ trigger = Outcome(FALSE, TRUE)

(* with at least one fused candidate the trigger returns True, also for    *)
(* three or more candidates whose scores lie within 0.25 of each other     *)
C29_NonEmptyAlwaysTriggers ==
    (stage = "gate_output" /\ fused # <<>>) =>
        /\ \A i \in 1..Len(fused) : RLe(fused[i].score, Rat(2, RRF_K + 1))
        /\ Max(retrieval_results) < MIN_TOP_SCORE
        /\ trigger = Outcome(FALSE, TRUE)

C29_TightlyScoredReached ==
    /\ stage = "gate_output"
    /\ Len(fused) >= MIN_RESULTS
    /\ REq(fused[1].score, Rat(2, RRF_K + 1))
    /\ ~StdAbove(retrieval_results, MAX_STD)
    /\ trigger = Outcome(FALSE, TRUE)

Writers == {"toggleShortlist", "removeItem"}

(* C30: the stored shortlist never holds two entries of one scholarship,   *)
(* and a write by a page (a toggle, a removal) changes the stored list     *)
(* only for the scholarship the page acted on: what other pages stored     *)
(* before stays                                                            *)
C30_ShortlistConsistent ==
    [][/\ \A i, j \in 1..Len(mas_scholar_shortlist') :
            i # j => mas_scholar_shortlist'[i] # mas_scholar_shortlist'[j]
       /\ call'.handler \in Writers =>
            \A id \in Focus \ {call'.arg[1]} :
                some(mas_scholar_shortlist', id) <=> some(mas_scholar_shortlist, id)]_vars

(* the first half alone *)
C30_NoDuplicateEntries ==
    \A i, j \in 1..Len(mas_scholar_shortlist) :
        i # j => mas_scholar_shortlist[i] # mas_scholar_shortlist[j]

(* the second half alone *)
C30_NoLostUpdate ==
    [][call'.handler \in Writers =>
            \A id \in Focus \ {call'.arg[1]} :
                some(mas_scholar_shortlist', id) <=> some(mas_scholar_shortlist, id)]_vars

====
